---- MODULE Spec2Model ----
(***************************************************************************)
(* Model of scripts/data-analysis/analyze_contra_costa.py.                 *)
(*                                                                         *)
(* The script makes three sequential passes over one tab-delimited file:   *)
(* analyze_voter_file (bounded sample scan and key-field report),          *)
(* print_sample_record (dump of one row) and, after an interactive prompt, *)
(* count_total_rows.                                                       *)
(*                                                                         *)
(* A file is a header (a sequence of distinct field names) followed by     *)
(* lines; a line is the sequence of its tab-separated cells and a cell is  *)
(* a string, written as the sequence of its Unicode code points.  The     *)
(* blank line is <<>>.  Cells hold no quote, tab or line-break characters, *)
(* so csv.reader splits a line into exactly its cells.                     *)
(***************************************************************************)
EXTENDS Integers, Sequences, FiniteSets, TLC

VARIABLES
    file_state,   \* "ok", "missing" or "unreadable": what stat()/open() meet
    file,         \* [header, lines]: the content of the file
    caller,       \* "main": the __main__ block; "direct": one function called
    record_num,   \* argument of print_sample_record
    pc,           \* position of the program
    pos,          \* lines after the header consumed by the current reader
    row_count,    \* analyze_voter_file: row_count
    field_stats,  \* analyze_voter_file: field_stats (a defaultdict)
    i,            \* print_sample_record: loop index
    response,     \* answer to input(), NoResponse before the prompt
    count,        \* count_total_rows: count
    out,          \* the kinds of line printed so far, in order
    report,       \* key-field entries printed by analyze_voter_file
    record_out    \* field lines printed by print_sample_record

vars == <<file_state, file, caller, record_num, pc, pos, row_count,
          field_stats, i, response, count, out, report, record_out>>

----------------------------------------------------------------------------
(* Program constants *)

sample_size == 100

MaxSamples == 3

MaxSampleLen == 50

DefaultRecordNum == 2

key_fields ==
    << "RegistrationNumber", "VoterID", "VoterTitle",
       "LastName", "FirstName", "MiddleName", "NameSuffix", "Gender",
       "ResidenceCity", "ResidenceZipCode",
       "HouseNumber", "PreDirection", "StreetName", "StreetSuffix",
       "PostDirection", "UnitAbbr", "UnitNumber",
       "MailAddress1", "MailAddress2", "MailAddress3", "MailAddress4",
       "MailCity", "MailState", "MailZip",
       "PhoneNumber", "EmailAddress",
       "RegistrationDate", "BirthDate", "BirthPlace",
       "PartyName", "PartyAbbr", "Language",
       "VBMProgramStatus", "StatusReason",
       "PrecinctID", "PrecinctPortion", "PrecinctName" >>

----------------------------------------------------------------------------
(* Bounds of the model *)

\* longest file whose lines are all chosen freely
MaxLines == 4

\* a long file has between sample_size - 1 and sample_size + MaxOver lines
MaxOver == 1

\* largest record number print_sample_record is called with directly
MaxRecordNum == 5

----------------------------------------------------------------------------
(* Input values *)

Rep(c, n) == [k \in 1..n |-> c]

\* 50 x's and one more character: two values that agree on 50 characters;
\* the second has a blank in front and a no-break space behind
LongY == Rep(120, 50) \o <<121>>

LongZ == <<32>> \o Rep(120, 50) \o <<122, 160>>

\* the lines: blank; "\fb ", "c"; "d"; "a", "b", "c"; LongY, ""; LongZ, "\f "
LineValues ==
    { <<>>,
      << <<12, 98, 32>>, <<99>> >>,
      << <<100>> >>,
      << <<97>>, <<98>>, <<99>> >>,
      << LongY, <<>> >>,
      << LongZ, <<12, 32>> >> }

\* "f", ""
FillerLine == << <<102>>, <<>> >>

Headers ==
    { << "LastName", "VoterID" >>,
      << "Foo", "LastName", "VoterID" >> }

RECURSIVE SeqsUpTo(_, _)
SeqsUpTo(S, n) ==
    IF n = 0 THEN { <<>> }
    ELSE LET shorter == SeqsUpTo(S, n - 1)
         IN  shorter \cup { Append(s, x) : s \in shorter, x \in S }

ShortLines == SeqsUpTo(LineValues, MaxLines)

\* what a long file starts with, in front of its filler rows
LongPrefixes == { <<>> } \cup { <<l>> : l \in LineValues }

LongLines ==
    { p \o Rep(FillerLine, n - Len(p)) :
        p \in LongPrefixes,
        n \in (sample_size - 1)..(sample_size + MaxOver) }

Files == [header : Headers, lines : ShortLines \cup LongLines]

\* answers typed at the prompt: "y", "Y", "n", "N", "", "yes", "YES", " y"
Responses ==
    { <<121>>, <<89>>, <<110>>, <<78>>, <<>>,
      <<121, 101, 115>>, <<89, 69, 83>>, <<32, 121>> }

\* value of response before input() has returned; no string holds -1
NoResponse == <<-1>>

----------------------------------------------------------------------------
(* String helpers *)

MinOf(S) == CHOOSE x \in S : \A y \in S : x <= y

MaxOf(S) == CHOOSE x \in S : \A y \in S : x >= y

\* the characters str.strip() removes: those str.isspace() is true of
Whitespace ==
    {9, 10, 11, 12, 13, 28, 29, 30, 31, 32, 133, 160, 5760}
        \cup (8192..8202) \cup {8232, 8233, 8239, 8287, 12288}

\* str.strip(): drop leading and trailing whitespace
Strip(s) ==
    LET idx == { k \in 1..Len(s) : s[k] \notin Whitespace }
    IN  IF idx = {} THEN <<>> ELSE SubSeq(s, MinOf(idx), MaxOf(idx))

\* s[:n]
Prefix(s, n) == SubSeq(s, 1, IF Len(s) < n THEN Len(s) ELSE n)

\* str.lower() of one character below U+0100: A-Z and the capital letters
\* of Latin-1 have their small letter 32 further on
LowerChar(c) ==
    IF (65 <= c /\ c <= 90) \/ (192 <= c /\ c <= 222 /\ c # 215)
    THEN c + 32
    ELSE c

\* str.lower(), for strings of characters below U+0100; no character from
\* U+0100 on has the small letter "y"
Lower(s) == [k \in 1..Len(s) |-> LowerChar(s[k])]

----------------------------------------------------------------------------
(* csv.DictReader *)

\* key under which DictReader stores the cells beyond the header (restkey)
RestKey == "<restkey>"

\* DictReader.__next__: the index of the next line that is not blank, 0 at
\* end of file; p lines have been consumed
NextRowIndex(lines, p) ==
    LET rest == { k \in (p + 1)..Len(lines) : lines[k] # <<>> }
    IN  IF rest = {} THEN 0 ELSE MinOf(rest)

\* DictReader.__next__: the items of the dict built from one line, in
\* insertion order.  A cell the line lacks has the value None (restval), the
\* cells beyond the header are one list under restkey.
DictRow(header, line) ==
    LET named == [k \in 1..Len(header) |->
                    IF k <= Len(line)
                    THEN [key |-> header[k], kind |-> "str", s |-> line[k]]
                    ELSE [key |-> header[k], kind |-> "none", s |-> <<>>]]
    IN  IF Len(line) > Len(header)
        THEN Append(named, [key |-> RestKey, kind |-> "list", s |-> <<>>])
        ELSE named

\* the rows DictReader yields for a file: its lines that are not blank
DataRows(f) == SelectSeq(f.lines, LAMBDA l : l # <<>>)

----------------------------------------------------------------------------
(* The test "value and value.strip()" *)

\* the test raises AttributeError on a list, which has no strip()
Raises(item) == item.kind = "list"

\* faulty variant: the value is not trimmed before it is tested
Truthy_NoStrip(item) == item.kind = "str" /\ item.s # <<>>

\* the test is true of a string with a character that is not whitespace
Truthy(item) == item.kind = "str" /\ Strip(item.s) # <<>>

\* index of the first item the test raises on, Len(items) + 1 when none
FirstRaise(items) ==
    LET bad == { k \in 1..Len(items) : Raises(items[k]) }
    IN  IF bad = {} THEN Len(items) + 1 ELSE MinOf(bad)

----------------------------------------------------------------------------
(* analyze_voter_file *)

\* the defaultdict's factory
DefaultStat == [filled |-> 0, empty |-> 0, samples |-> {}]

StatOf(stats, key) == IF key \in DOMAIN stats THEN stats[key] ELSE DefaultStat

\* faulty variant: the value is cut before it is trimmed
SampleValue_CutFirst(s) == Strip(Prefix(s, MaxSampleLen))

\* value.strip()[:50]
SampleValue(s) == Prefix(Strip(s), MaxSampleLen)

\* faulty variant: a full set still takes one more value
HasRoom_OneMore(samples) == Cardinality(samples) <= MaxSamples

\* len(field_stats[field]['samples']) < 3
HasRoom(samples) == Cardinality(samples) < MaxSamples

\* body of the loop over row.items() for one item the test does not raise on
UpdateStat(stat, item) ==
    IF Truthy(item)
    THEN [stat EXCEPT !.filled = @ + 1,
                      !.samples = IF HasRoom(@)
                                  THEN @ \cup {SampleValue(item.s)}
                                  ELSE @]
    ELSE [stat EXCEPT !.empty = @ + 1]

\* the loop over row.items(), up to the item the test raises on
RECURSIVE ProcessItems(_, _, _)
ProcessItems(items, k, stats) ==
    IF k > Len(items) \/ Raises(items[k]) THEN stats
    ELSE LET key == items[k].key
             upd == [f \in DOMAIN stats \cup {key} |->
                        IF f = key THEN UpdateStat(StatOf(stats, key), items[k])
                        ELSE stats[f]]
         IN  ProcessItems(items, k + 1, upd)

\* if row_num >= sample_size: break
SampleFull(row_num) == row_num >= sample_size

(* filled / row_count * 100 in IEEE 754 double arithmetic.  A positive     *)
(* double is [m, e]: m the 53 bits of its significand, most significant    *)
(* first, and e the exponent of the last of them; its value is m * 2^e.    *)

\* bits of the significand of a double
MantBits == 53

\* the binary digits of a natural number, most significant first
RECURSIVE Bits(_)
Bits(n) == IF n = 0 THEN << >> ELSE Append(Bits(n \div 2), n % 2)

\* a bit sequence plus one
RECURSIVE Incr(_)
Incr(b) ==
    IF b = << >> THEN <<1>>
    ELSE IF b[Len(b)] = 0 THEN [b EXCEPT ![Len(b)] = 1]
    ELSE Append(Incr(SubSeq(b, 1, Len(b) - 1)), 0)

\* a bit sequence times a small natural number k: the bits from the j-th
\* down are multiplied, least significant first, in front of those of acc
RECURSIVE MulFrom(_, _, _, _, _)
MulFrom(b, j, k, carry, acc) ==
    IF j = 0 THEN Bits(carry) \o acc
    ELSE IF (b[j] * k + carry) % 2 = 1
    THEN MulFrom(b, j - 1, k, (b[j] * k + carry) \div 2, <<1>> \o acc)
    ELSE MulFrom(b, j - 1, k, (b[j] * k + carry) \div 2, <<0>> \o acc)

MulBits(b, k) == MulFrom(b, Len(b), k, 0, << >>)

\* -1, 0 or 1 as bit sequence a (no leading zero) is below, at or above b
CmpBits(a, b) ==
    IF Len(a) # Len(b) THEN (IF Len(a) < Len(b) THEN -1 ELSE 1)
    ELSE LET diff == { j \in 1..Len(a) : a[j] # b[j] }
         IN  IF diff = {} THEN 0
             ELSE IF a[MinOf(diff)] < b[MinOf(diff)] THEN -1 ELSE 1

\* round to nearest, ties to even: the double nearest to bits * 2^e plus a
\* fraction of its last place that is not zero when sticky
RoundBits(bits, sticky, e) ==
    IF Len(bits) <= MantBits
    THEN [m |-> bits \o Rep(0, MantBits - Len(bits)),
          e |-> e - (MantBits - Len(bits))]
    ELSE LET keep == SubSeq(bits, 1, MantBits)
             drop == Len(bits) - MantBits
             rest == sticky \/ \E j \in (MantBits + 2)..Len(bits) : bits[j] = 1
             up   == bits[MantBits + 1] = 1 /\ (rest \/ keep[MantBits] = 1)
             r    == IF up THEN Incr(keep) ELSE keep
         IN  IF Len(r) > MantBits
             THEN [m |-> SubSeq(r, 1, MantBits), e |-> e + drop + 1]
             ELSE [m |-> r, e |-> e + drop]

\* scale a / d into [1, 2): a / d * 2^e stays the same
RECURSIVE Norm(_, _, _)
Norm(a, d, e) ==
    IF a >= 2 * d THEN Norm(a, 2 * d, e + 1)
    ELSE IF a < d THEN Norm(2 * a, d, e - 1)
    ELSE [a |-> a, d |-> d, e |-> e]

\* the next k binary digits of r / d, r < d, after those of acc
RECURSIVE GenBits(_, _, _, _)
GenBits(r, d, k, acc) ==
    IF k = 0 THEN [bits |-> acc, rem |-> r]
    ELSE IF 2 * r >= d THEN GenBits(2 * r - d, d, k - 1, Append(acc, 1))
    ELSE GenBits(2 * r, d, k - 1, Append(acc, 0))

\* the double f / n, for integers f, n > 0
FloatDiv(f, n) ==
    LET s == Norm(f, n, 0)
        g == GenBits(s.a - s.d, s.d, MantBits, <<1>>)
    IN  RoundBits(g.bits, g.rem # 0, s.e - MantBits)

\* the double x * k, k a small natural number
FloatMul(x, k) == RoundBits(MulBits(x.m, k), FALSE, x.e)

\* the double x as '.1f' prints it, in tenths: the decimal nearest to its
\* exact value, ties to even; t is a number of tenths with x within 1 of it
Tenths(x, t) ==
    LET a == MulBits(x.m, 20) \o Rep(0, IF x.e > 0 THEN x.e ELSE 0)
        b == Bits(2 * t + 1) \o Rep(0, IF x.e < 0 THEN 0 - x.e ELSE 0)
        c == CmpBits(a, b)
    IN  IF c < 0 \/ (c = 0 /\ t % 2 = 0) THEN t ELSE t + 1

\* filled_pct as printed with one decimal, in tenths of a percent
FilledPct(filled, rows) ==
    IF rows > 0 /\ filled > 0
    THEN Tenths(FloatMul(FloatDiv(filled, rows), 100), (filled * 1000) \div rows)
    ELSE 0

\* if field in field_stats
Reported(field, stats) == field \in DOMAIN stats

\* the loop over key_fields: one entry per key field printed
KeyFieldReport(stats, rows) ==
    LET shown == SelectSeq(key_fields, LAMBDA f : Reported(f, stats))
    IN  [k \in 1..Len(shown) |->
            [field   |-> shown[k],
             filled  |-> stats[shown[k]].filled,
             rows    |-> rows,
             pct     |-> FilledPct(stats[shown[k]].filled, rows),
             samples |-> stats[shown[k]].samples]]

----------------------------------------------------------------------------
(* print_sample_record *)

\* faulty variant: rows are numbered from the header line
IsTarget_FromHeader(idx, num) == idx + 1 = num

\* faulty variant: any row up to the target matches
IsTarget_UpTo(idx, num) == idx <= num

\* if i == record_num
IsTarget(idx, num) == idx = num

\* the field lines printed for the target row, up to the item the test
\* raises on; the value is printed as read
PrintedFields(items) ==
    LET seen == SubSeq(items, 1, FirstRaise(items) - 1)
        kept == SelectSeq(seen, Truthy)
    IN  [k \in 1..Len(kept) |-> [field |-> kept[k].key, value |-> kept[k].s]]

\* where control goes when print_sample_record returns
AfterSample == IF caller = "main" THEN "prompt" ELSE "returned"

----------------------------------------------------------------------------
(* count_total_rows and the prompt *)

\* faulty variant: the header line is not skipped
SkipHeader_None(p) == p

\* next(f): the reader has consumed p lines and consumes one more
SkipHeader(p) == p + 1

\* lines of the file, the header line included
NumLines(f) == 1 + Len(f.lines)

\* faulty variant: the answer is compared as typed
Confirmed_AsTyped(r) == r = <<121>>

\* response.lower() == 'y'
Confirmed(r) == Lower(r) = <<121>>

\* Path(file_path).stat() succeeds
StatOk(fs) == fs # "missing"

\* faulty variant: a failed open is not noticed
OpenOk_Always(fs) == fs \in {"ok", "unreadable"}

\* open(file_path) succeeds
OpenOk(fs) == fs = "ok"

----------------------------------------------------------------------------
(* Initial states *)

\* a file with nothing after its header, read when the path cannot be opened
EmptyFile == [header |-> << "LastName", "VoterID" >>, lines |-> <<>>]

InitLocals ==
    /\ pos = 0
    /\ row_count = 0
    /\ field_stats = << >>
    /\ i = 0
    /\ response = NoResponse
    /\ count = 0
    /\ out = << >>
    /\ report = << >>
    /\ record_out = << >>

\* the __main__ block, started on a path that may be missing or unreadable
Init ==
    /\ caller = "main"
    /\ record_num = DefaultRecordNum
    /\ pc = "analyze"
    /\ \/ file_state = "ok" /\ file \in Files
       \/ file_state \in {"missing", "unreadable"} /\ file = EmptyFile
    /\ InitLocals

\* print_sample_record called on a readable file with any record number
InitRecord ==
    /\ caller = "direct"
    /\ record_num \in 1..MaxRecordNum
    /\ pc = "sample"
    /\ file_state = "ok"
    /\ file \in Files
    /\ InitLocals

----------------------------------------------------------------------------
(* analyze_voter_file *)

\* lines 17-22 when stat() or open() raises: the exception is not caught
AnalyzeOpenFail ==
    /\ pc = "analyze"
    /\ ~ (StatOk(file_state) /\ OpenOk(file_state))
    /\ out' = IF StatOk(file_state)
              THEN out \o << "Analyzing", "FileSize" >>
              ELSE out \o << "Analyzing" >>
    /\ pc' = "fatal"
    /\ UNCHANGED <<file_state, file, caller, record_num, pos, row_count,
                   field_stats, i, response, count, report, record_out>>

\* lines 17-38: open the file, read and print the header
AnalyzeOpen ==
    /\ pc = "analyze"
    /\ StatOk(file_state) /\ OpenOk(file_state)
    /\ out' = out \o << "Analyzing", "FileSize", "TotalFields", "FieldNames",
                        "AnalyzingFirst" >>
    /\ pos' = 0
    /\ row_count' = 0
    /\ field_stats' = << >>
    /\ pc' = "analyze_rows"
    /\ UNCHANGED <<file_state, file, caller, record_num, i, response, count,
                   report, record_out>>

\* lines 40-53: one iteration of the loop over the reader
AnalyzeRow ==
    /\ pc = "analyze_rows"
    /\ NextRowIndex(file.lines, pos) # 0
    /\ LET idx     == NextRowIndex(file.lines, pos)
           items   == DictRow(file.header, file.lines[idx])
           row_num == row_count + 1
       IN  /\ pos' = idx
           /\ row_count' = row_num
           /\ field_stats' = ProcessItems(items, 1, field_stats)
           /\ pc' = IF FirstRaise(items) <= Len(items) THEN "fatal"
                    ELSE IF SampleFull(row_num) THEN "analyze_report"
                    ELSE "analyze_rows"
    /\ UNCHANGED <<file_state, file, caller, record_num, i, response, count,
                   out, report, record_out>>

\* line 40: the reader is exhausted
AnalyzeEOF ==
    /\ pc = "analyze_rows"
    /\ NextRowIndex(file.lines, pos) = 0
    /\ pos' = Len(file.lines)
    /\ pc' = "analyze_report"
    /\ UNCHANGED <<file_state, file, caller, record_num, row_count,
                   field_stats, i, response, count, out, report, record_out>>

\* lines 55-100: the number of rows analyzed and the key-field report
AnalyzeReport ==
    /\ pc = "analyze_report"
    /\ report' = KeyFieldReport(field_stats, row_count)
    /\ out' = out \o << "RowsAnalyzed", "KeyFields", "AnalysisComplete" >>
    /\ pc' = "sample"
    /\ UNCHANGED <<file_state, file, caller, record_num, pos, row_count,
                   field_stats, i, response, count, record_out>>

----------------------------------------------------------------------------
(* print_sample_record *)

\* lines 104-109: print the banner and open the file again
SampleOpen ==
    /\ pc = "sample"
    /\ out' = Append(out, "SampleRecord")
    /\ pos' = 0
    /\ i' = 0
    /\ pc' = "sample_rows"
    /\ UNCHANGED <<file_state, file, caller, record_num, row_count,
                   field_stats, response, count, report, record_out>>

\* lines 111-116: one iteration of the loop over the reader
SampleRow ==
    /\ pc = "sample_rows"
    /\ NextRowIndex(file.lines, pos) # 0
    /\ LET idx   == NextRowIndex(file.lines, pos)
           items == DictRow(file.header, file.lines[idx])
       IN  /\ pos' = idx
           /\ i' = i + 1
           /\ IF IsTarget(i + 1, record_num)
              THEN /\ record_out' = record_out \o PrintedFields(items)
                   /\ pc' = IF FirstRaise(items) <= Len(items) THEN "fatal"
                            ELSE AfterSample
              ELSE /\ record_out' = record_out
                   /\ pc' = "sample_rows"
    /\ UNCHANGED <<file_state, file, caller, record_num, row_count,
                   field_stats, response, count, out, report>>

\* line 111: the reader is exhausted before the target row
SampleEOF ==
    /\ pc = "sample_rows"
    /\ NextRowIndex(file.lines, pos) = 0
    /\ pos' = Len(file.lines)
    /\ pc' = AfterSample
    /\ UNCHANGED <<file_state, file, caller, record_num, row_count,
                   field_stats, i, response, count, out, report, record_out>>

----------------------------------------------------------------------------
(* __main__ and count_total_rows *)

\* lines 139-141: the operator answers the prompt
Prompt ==
    /\ pc = "prompt"
    /\ \E r \in Responses :
          /\ response' = r
          /\ pc' = IF Confirmed(r) THEN "count" ELSE "done"
    /\ out' = Append(out, "Prompt")
    /\ UNCHANGED <<file_state, file, caller, record_num, pos, row_count,
                   field_stats, i, count, report, record_out>>

\* lines 120-126: print the banner, open the file, skip the header line;
\* here pos counts the lines consumed, the header line included
CountOpen ==
    /\ pc = "count"
    /\ out' = Append(out, "Counting")
    /\ pos' = SkipHeader(0)
    /\ count' = 0
    /\ pc' = "count_lines"
    /\ UNCHANGED <<file_state, file, caller, record_num, row_count,
                   field_stats, i, response, report, record_out>>

\* line 127: the generator yields one for the next line
CountLine ==
    /\ pc = "count_lines"
    /\ pos < NumLines(file)
    /\ pos' = pos + 1
    /\ count' = count + 1
    /\ UNCHANGED <<file_state, file, caller, record_num, pc, row_count,
                   field_stats, i, response, out, report, record_out>>

\* lines 127-130: end of file; print and return the total
CountEOF ==
    /\ pc = "count_lines"
    /\ pos >= NumLines(file)
    /\ out' = Append(out, "TotalRecords")
    /\ pc' = "done"
    /\ UNCHANGED <<file_state, file, caller, record_num, pos, row_count,
                   field_stats, i, response, count, report, record_out>>

----------------------------------------------------------------------------
(* Specifications *)

Next ==
    \/ AnalyzeOpenFail
    \/ AnalyzeOpen
    \/ AnalyzeRow
    \/ AnalyzeEOF
    \/ AnalyzeReport
    \/ SampleOpen
    \/ SampleRow
    \/ SampleEOF
    \/ Prompt
    \/ CountOpen
    \/ CountLine
    \/ CountEOF

Spec == Init /\ [][Next]_vars

NextRecord ==
    \/ SampleOpen
    \/ SampleRow
    \/ SampleEOF

SpecRecord == InitRecord /\ [][NextRecord]_vars

----------------------------------------------------------------------------
(* Reference definitions used by the properties below.  They restate what  *)
(* the specification says in terms of the file, not of the program state.  *)

\* c is a whitespace character of Unicode
IsSpace(c) ==
    \/ 9 <= c /\ c <= 13
    \/ 28 <= c /\ c <= 32
    \/ c = 133 \/ c = 160 \/ c = 5760
    \/ 8192 <= c /\ c <= 8202
    \/ c = 8232 \/ c = 8233 \/ c = 8239 \/ c = 8287 \/ c = 12288

RECURSIVE TrimLeft(_)
TrimLeft(s) ==
    IF s = <<>> THEN s
    ELSE IF IsSpace(Head(s)) THEN TrimLeft(Tail(s)) ELSE s

RECURSIVE TrimRight(_)
TrimRight(s) ==
    IF s = <<>> THEN s
    ELSE IF IsSpace(s[Len(s)]) THEN TrimRight(SubSeq(s, 1, Len(s) - 1)) ELSE s

Trimmed(s) == TrimRight(TrimLeft(s))

IsBlank(s) == \A k \in 1..Len(s) : IsSpace(s[k])

\* the trimmed value, cut to 50 characters
Trimmed50(s) ==
    LET t == Trimmed(s)
    IN  [k \in 1..(IF Len(t) > 50 THEN 50 ELSE Len(t)) |-> t[k]]

SmallerOf(a, b) == IF a < b THEN a ELSE b

\* number of rows the sample pass covers
SampledRows(f) == SmallerOf(100, Len(DataRows(f)))

\* cell of column c in a row, empty when the row has no such cell
CellOf(row, c) == IF c <= Len(row) THEN row[c] ELSE <<>>

\* the values of column c that are not blank, over the first n data rows
FilledCells(f, c, n) ==
    LET rows == DataRows(f)
    IN  SelectSeq([k \in 1..n |-> CellOf(rows[k], c)],
                  LAMBDA v : ~ IsBlank(v))

\* the first up to 3 distinct values of a sequence
FirstThree(vals) ==
    LET firsts == { j \in 1..Len(vals) : \A m \in 1..(j - 1) : vals[m] # vals[j] }
    IN  { vals[j] : j \in { k \in firsts :
                               Cardinality({ m \in firsts : m < k }) < 3 } }

ColumnOf(f, name) == CHOOSE c \in 1..Len(f.header) : f.header[c] = name

HeaderNames(f) == { f.header[c] : c \in 1..Len(f.header) }

\* the field lines of a row: its cells that are not blank, in header order
FieldLines(f, row) ==
    LET cols == SelectSeq([c \in 1..Len(f.header) |-> c],
                          LAMBDA c : ~ IsBlank(CellOf(row, c)))
    IN  [k \in 1..Len(cols) |->
            [field |-> f.header[cols[k]], value |-> row[cols[k]]]]

\* the field lines of the n-th data row, none when there is no such row
FieldLinesOfRow(f, n) ==
    IF n <= Len(DataRows(f)) THEN FieldLines(f, DataRows(f)[n]) ELSE << >>

Printed(tag) == \E k \in 1..Len(out) : out[k] = tag

IndexOf(tag) == CHOOSE k \in 1..Len(out) : out[k] = tag

\* the answer is "y" or "Y"
AnswerIsY == response \in { <<121>>, <<89>> }

\* the sample pass of analyze_voter_file has ended without an error
SamplePassOver == pc \notin {"analyze", "analyze_rows", "fatal"}

\* print_sample_record has ended
RecordPassOver == pc \in {"returned", "prompt", "count", "count_lines", "done"}

----------------------------------------------------------------------------
(* Properties *)

\* C1: the sample pass of analyze_voter_file over a readable file raises no
\* error, and once it has ended the number of rows analyzed is min(100, D),
\* D the number of data rows of the file, and filled + empty equals that
\* number for every field that has statistics.
C1_RowsAnalyzed ==
    (caller = "main" /\ file_state = "ok") =>
        /\ pc # "fatal"
        /\ SamplePassOver =>
              /\ row_count = SampledRows(file)
              /\ \A f \in DOMAIN field_stats :
                    field_stats[f].filled + field_stats[f].empty = row_count

\* C2: at every point of the sample pass every field's sample set holds at
\* most 3 entries and every entry is at most 50 characters long.
C2_SamplesBounded ==
    \A f \in DOMAIN field_stats :
        /\ Cardinality(field_stats[f].samples) <= 3
        /\ \A v \in field_stats[f].samples : Len(v) <= 50

\* in the middle of the pass a full set holds a value that was cut, and the
\* row just read offered a value that is not in the set
C2_Witness ==
    /\ pc = "analyze_rows"
    /\ pos > 0
    /\ \E c \in 1..Len(file.header) :
          /\ file.header[c] \in DOMAIN field_stats
          /\ LET st == field_stats[file.header[c]]
                 v  == CellOf(file.lines[pos], c)
             IN  /\ Cardinality(st.samples) = 3
                 /\ \E w \in st.samples : Len(w) = 50
                 /\ ~ IsBlank(v)
                 /\ Trimmed50(v) \notin st.samples

\* C3 as stated: the default sample-record step prints the first data row
\* after the header.
C3_PrintsFirstRow ==
    (caller = "main" /\ RecordPassOver) =>
        record_out = FieldLinesOfRow(file, 1)

\* C3 amended: the default sample-record step prints the second data row
\* after the header, and nothing when the file has fewer than two data rows.
C3_PrintsSecondRow ==
    (caller = "main" /\ RecordPassOver) =>
        record_out = FieldLinesOfRow(file, 2)

\* the step has printed the second row of a file whose first row differs
C3_Witness ==
    /\ caller = "main"
    /\ pc = "prompt"
    /\ Len(DataRows(file)) >= 2
    /\ record_out # << >>
    /\ FieldLinesOfRow(file, 1) # << >>
    /\ FieldLinesOfRow(file, 1) # FieldLinesOfRow(file, 2)

\* C4: the key-fields report has one entry for every key field that is in
\* the header, in the order of the key-field list, with the filled count,
\* the number of sampled rows and the fill percentage (0.0 for zero rows);
\* this also for a file with a header and no data rows.
C4_KeyFieldReport ==
    Printed("KeyFields") =>
        LET wanted == SelectSeq(key_fields, LAMBDA f : f \in HeaderNames(file))
            rows   == SampledRows(file)
        IN  /\ Len(report) = Len(wanted)
            /\ \A k \in 1..Len(wanted) :
                  LET n == Len(FilledCells(file, ColumnOf(file, wanted[k]), rows))
                      d == 1000 * n - report[k].pct * rows
                  IN  /\ report[k].field = wanted[k]
                      /\ report[k].filled = n
                      /\ report[k].rows = rows
                      /\ 2 * (IF d < 0 THEN 0 - d ELSE d) <= rows

\* C5: count_total_rows on a header line followed by D lines reports D: the
\* header line is not counted and every other line is counted once.
C5_CountExcludesHeader ==
    /\ pc = "count_lines" => count = pos - 1 /\ count <= Len(file.lines)
    /\ Printed("TotalRecords") => count = Len(file.lines)

\* the total of a file with several lines, one of them blank, was reported
C5_Witness ==
    /\ pc = "done"
    /\ Printed("TotalRecords")
    /\ count >= 2
    /\ count > Len(DataRows(file))

\* C6: the row count runs if and only if the answer, lower-cased, is 'y';
\* it never runs before the answer, and the prompt comes after the analysis
\* pass and the sample-record pass.
C6_CountIffYes ==
    /\ (pc \in {"count", "count_lines"} \/ Printed("Counting")) =>
          response # NoResponse /\ AnswerIsY
    /\ pc = "done" => (Printed("TotalRecords") <=> AnswerIsY)
    /\ (pc = "prompt" \/ response # NoResponse) =>
          Printed("AnalysisComplete") /\ Printed("SampleRecord")
    /\ Printed("Prompt") =>
          /\ IndexOf("AnalysisComplete") < IndexOf("Prompt")
          /\ IndexOf("SampleRecord") < IndexOf("Prompt")
          /\ response # NoResponse

\* the row count ran on an upper-case answer
C6_Witness ==
    /\ pc = "done"
    /\ response = <<89>>
    /\ Printed("TotalRecords")

\* C7: print_sample_record with a record number beyond the last data row
\* prints no field line, raises no error and returns at end of file.
C7_OutOfRangeSilent ==
    (caller = "direct" /\ record_num > Len(DataRows(file))) =>
        /\ record_out = << >>
        /\ pc # "fatal"
        /\ pc = "returned" => pos = Len(file.lines) /\ i = Len(DataRows(file))

\* the function returned from a file whose rows have fields to print
C7_Witness ==
    /\ caller = "direct"
    /\ pc = "returned"
    /\ record_num > Len(DataRows(file))
    /\ Len(DataRows(file)) >= 2
    /\ FieldLinesOfRow(file, 1) # << >>
    /\ record_out = << >>

\* C8: when the path is missing or unreadable the run ends in a fatal error
\* in the first pass: no statistics are reported and the sample-record pass,
\* the prompt and the row count are not reached.
C8_FatalOnOpen ==
    file_state # "ok" =>
        /\ pc \in {"analyze", "fatal"}
        /\ DOMAIN field_stats = {}
        /\ report = << >>
        /\ record_out = << >>
        /\ response = NoResponse
        /\ \A k \in 1..Len(out) : out[k] \in {"Analyzing", "FileSize"}

\* the run ended at the open of an unreadable file
C8_Witness ==
    /\ pc = "fatal"
    /\ file_state = "unreadable"
    /\ Printed("FileSize")

\* C9: print_sample_record with record number n, 1 <= n <= number of data
\* rows, prints one line per field of the n-th row that is not blank, in
\* header order, and nothing else; it stops reading at that row.
C9_PrintsTargetRow ==
    (caller = "direct" /\ record_num <= Len(DataRows(file))) =>
        /\ pc \in {"sample", "sample_rows"} => record_out = << >>
        /\ pc \in {"returned", "fatal"} =>
              /\ record_out = FieldLinesOfRow(file, record_num)
              /\ i = record_num
              /\ Len(SelectSeq(SubSeq(file.lines, 1, pos),
                               LAMBDA l : l # <<>>)) = record_num

\* a row with a blank field was printed and rows after it were left unread
C9_Witness ==
    /\ caller = "direct"
    /\ pc = "returned"
    /\ record_num >= 2
    /\ record_num < Len(DataRows(file))
    /\ record_out # << >>
    /\ \E c \in 1..Len(file.header) :
          LET v == CellOf(DataRows(file)[record_num], c)
          IN  v # <<>> /\ IsBlank(v)

\* C10: at every point of the sample pass each field's sample set is the
\* set of the first up to 3 distinct values, in row order, of the field's
\* non-blank values trimmed and cut to 50 characters, and the filled count
\* is the number of non-blank values.
C10_SamplesAreFirstThree ==
    caller = "main" =>
        /\ DOMAIN field_stats =
              IF row_count = 0 THEN {} ELSE HeaderNames(file)
        /\ \A c \in 1..Len(file.header) :
              file.header[c] \in DOMAIN field_stats =>
                  LET cells == FilledCells(file, c, row_count)
                      vals  == [k \in 1..Len(cells) |-> Trimmed50(cells[k])]
                      st    == field_stats[file.header[c]]
                  IN  /\ st.samples = FirstThree(vals)
                      /\ st.filled = Len(cells)

\* the pass ended on a column with more than 3 distinct values, one of them
\* longer than 50 characters, and on a column with a blank value
C10_Witness ==
    /\ pc = "analyze_report"
    /\ \E c \in 1..Len(file.header) :
          LET cells == FilledCells(file, c, row_count)
              vals  == [k \in 1..Len(cells) |-> Trimmed50(cells[k])]
          IN  /\ Cardinality({ vals[k] : k \in 1..Len(vals) }) > 3
              /\ \E k \in 1..Len(cells) : Len(Trimmed(cells[k])) > 50
    /\ \E c \in 1..Len(file.header) :
          Len(FilledCells(file, c, row_count)) < row_count

====
